---- MODULE Spec2Model ----
(***************************************************************************)
(* Model of app.py: one POST /upload request (upload_file) and the page    *)
(* walk of split_messages_pdf that it calls.                               *)
(*                                                                         *)
(* A page's text is a sequence of tokens: the words "Message" and "of",    *)
(* the blank " ", the decimal digits "0".."9" and the filler "x".  A page  *)
(* is named by its 1-based position in the document (the PageObject the    *)
(* reader hands out for that position).                                    *)
(***************************************************************************)
EXTENDS Integers, Sequences, FiniteSets, TLC

\* ------------------------------------------------------------------ bounds
\* Longest document the reader may report (len(reader.pages)).
MaxPages == 3
\* Largest message number written in a well-formed marker of the input texts.
MaxNum == 2

\* ------------------------------------------------------------ text tokens
DigitChars == <<"0", "1", "2", "3", "4", "5", "6", "7", "8", "9">>

Digits == {DigitChars[i] : i \in DOMAIN DigitChars}

Spaces == {" "}

DigitChar(n) == DigitChars[n + 1]

DigitVal(c) == CHOOSE v \in 0..9 : DigitChars[v + 1] = c

\* int(s) for a run s of decimal digits (leading zeros are accepted).
RECURSIVE ParseInt(_)
ParseInt(s) ==
    IF s = <<>> THEN 0
    ELSE 10 * ParseInt(SubSeq(s, 1, Len(s) - 1)) + DigitVal(s[Len(s)])

\* The decimal text an f-string gives for a non-negative int.
RECURSIVE FormatInt(_)
FormatInt(n) ==
    IF n < 10 THEN <<DigitChar(n)>>
    ELSE FormatInt(n \div 10) \o <<DigitChar(n % 10)>>

\* ------------------------------------------------------- marker detection
\* The position just after the longest run of characters of S starting at i
\* (a greedy \s+ or \d+; the classes of neighbouring parts of the pattern
\* are disjoint, so the greedy run is the only one that can match).
RunEnd(text, i, S) ==
    CHOOSE j \in i..(Len(text) + 1) :
        /\ \A k \in i..(j - 1) : text[k] \in S
        /\ (j = Len(text) + 1 \/ text[j] \notin S)

\* The digit runs the pattern captures when it matches at position i:
\* <<group(1), group(2)>>, or <<>> when it does not match there.
MatchAt(text, i) ==
    LET a == i + 1
        b == RunEnd(text, a, Spaces)
        c == RunEnd(text, b, Digits)
        d == RunEnd(text, c, Spaces)
        e == d + 1
        f == RunEnd(text, e, Spaces)
        g == RunEnd(text, f, Digits)
    IN  IF /\ text[i] = "Message"
           /\ b > a /\ c > b /\ d > c
           /\ d <= Len(text) /\ text[d] = "of"
           /\ f > e /\ g > f
        THEN <<SubSeq(text, b, c - 1), SubSeq(text, f, g - 1)>>
        ELSE <<>>

\* message_pattern.search(text): the match at the leftmost position where
\* the pattern matches, <<>> (None) when there is none.
NoMatch == <<>>

message_pattern_search(text) ==
    LET hits == {i \in 1..Len(text) : MatchAt(text, i) # <<>>}
    IN  IF hits = {} THEN NoMatch
        ELSE MatchAt(text, CHOOSE i \in hits : \A j \in hits : i <= j)

\* ------------------------------------------------------------------ inputs
MarkerText(n, t) ==
    <<"Message", " ", DigitChar(n), " ", "of", " ", DigitChar(t)>>

\* The totals the well-formed markers of the input declare.
Totals == {1, 2}

\* The page texts extract_text() may return: nothing, marker-free text, a
\* marker for every number 1..MaxNum and every total of Totals, markers
\* with the number 0, with the total 0 and with leading zeros, and a text
\* holding two markers.
Texts ==
    {<<>>, <<"x">>}
    \cup {MarkerText(n, t) : n \in 1..MaxNum, t \in Totals}
    \cup {MarkerText(0, 1), MarkerText(1, 0)}
    \cup {<<"Message", " ", "0", "1", " ", "of", " ", "0", "2">>}
    \cup {<<"x">> \o MarkerText(2, 1) \o <<"x">> \o MarkerText(1, 2)}

\* Line 118: message_pattern.search(text) for each of the page texts,
\* computed once.
PageMatch == [t \in Texts |-> message_pattern_search(t)]

\* What page.extract_text() does on one page: returns a text or raises.
ExtractOutcomes ==
    {[raised |-> TRUE, text |-> <<>>]}
    \cup {[raised |-> FALSE, text |-> t] : t \in Texts}

\* What writing one output file does: it is written; open() raises and the
\* directory is untouched; or writer.write() raises after open() has
\* created (truncated) the file.
WriteOutcomes == {"ok", "open_raises", "write_raises"}

\* request.files['pdf_file'].filename of the requests modelled; has_part is
\* 'pdf_file' in request.files.
Requests ==
    {[has_part |-> FALSE, filename |-> <<>>],
     [has_part |-> TRUE, filename |-> <<>>],
     [has_part |-> TRUE, filename |-> <<"a">>],
     [has_part |-> TRUE, filename |-> <<"a", ".", "txt">>],
     [has_part |-> TRUE, filename |-> <<"..", "/", "a", ".", "PDF">>]}

\* ------------------------------------------------------------------- state
VARIABLES
    pc,                        \* where the request handler stands
    request,                   \* the request being served
    temp_dir,                  \* upload_file's temp_dir (<<>> is None)
    fs,                        \* the file system: path -> file content
    dirs,                      \* the directories that exist
    reader_open,               \* PdfReader(input_pdf_path) has succeeded
    num_pages,                 \* len(reader.pages)
    page_num,                  \* pages the loop has finished with
    extracted,                 \* what extract_text() did on each of them
    current_message_number,
    total_messages_reported,
    pages_for_current_message,
    last_match,
    generated_files,
    saved,                     \* the groups written, one per "Saved:" line
    page_errors,               \* pages that ended in "Error processing page"
    split_files,               \* split_messages_pdf's first return value
    error,                     \* its second (<<>> is None)
    flashed,                   \* messages flashed to the user
    response,                  \* what the handler returns
    archive,                   \* the entries of the zip sent
    cleanup_error              \* rmtree raised (the message of line 336)

walkVars ==
    <<reader_open, num_pages, page_num, extracted, current_message_number,
      total_messages_reported, pages_for_current_message, last_match,
      generated_files, saved, page_errors>>

resultVars == <<split_files, error>>

replyVars == <<flashed, response, archive>>

vars ==
    <<pc, request, temp_dir, fs, dirs, walkVars, resultVars, replyVars,
      cleanup_error>>

\* ---------------------------------------------------------------- helpers
None == <<>>

Range(f) == {f[i] : i \in DOMAIN f}

Lower(tok) == IF tok = "PDF" THEN "pdf" ELSE IF tok = "TXT" THEN "txt" ELSE tok

ALLOWED_EXTENSIONS == {<<"pdf">>}

DotTokens == {".", ".."}

\* The position of the last '.' of a name that has one.
LastDot(name) ==
    CHOOSE i \in DOMAIN name :
        /\ name[i] \in DotTokens
        /\ \A j \in DOMAIN name : name[j] \in DotTokens => j <= i

\* '.' in filename and filename.rsplit('.', 1)[1].lower() in ALLOWED_EXTENSIONS
allowed_file(filename) ==
    /\ \E i \in DOMAIN filename : filename[i] \in DotTokens
    /\ LET ext == SubSeq(filename, LastDot(filename) + 1, Len(filename))
       IN  [i \in DOMAIN ext |-> Lower(ext[i])] \in ALLOWED_EXTENSIONS

\* werkzeug's secure_filename on these names: a path separator becomes "_",
\* then leading and trailing dots and underscores are stripped.
RECURSIVE StripLeft(_)
StripLeft(name) ==
    IF name # <<>> /\ name[1] \in DotTokens \cup {"_"}
    THEN StripLeft(Tail(name)) ELSE name

RECURSIVE StripRight(_)
StripRight(name) ==
    IF name # <<>> /\ name[Len(name)] \in DotTokens \cup {"_"}
    THEN StripRight(SubSeq(name, 1, Len(name) - 1)) ELSE name

secure_filename(filename) ==
    StripRight(StripLeft(
        [i \in DOMAIN filename |-> IF filename[i] = "/" THEN "_" ELSE filename[i]]))

original_filename == secure_filename(request.filename)

\* os.path.splitext(original_filename)[0]
base_filename ==
    IF \E i \in DOMAIN original_filename : original_filename[i] \in DotTokens
    THEN SubSeq(original_filename, 1, LastDot(original_filename) - 1)
    ELSE original_filename

\* A path is the sequence of its components; os.path.join(dir, name) for a
\* name that is one component (an absolute name replaces dir).
PathJoin(dir, name) ==
    IF name # <<>> /\ name[1] = "/" THEN <<name>> ELSE Append(dir, name)

\* os.path.basename(path)
Basename(path) == path[Len(path)]

\* The directory tempfile.mkdtemp() creates.
TempDirPath == << <<"tmp">> >>

upload_path == PathJoin(temp_dir, original_filename)

output_split_dir == PathJoin(temp_dir, <<"output">>)

\* Whether path lies below directory dir.
Under(path, dir) ==
    /\ Len(path) > Len(dir)
    /\ SubSeq(path, 1, Len(dir)) = dir
    /\ \A i \in DOMAIN path : "/" \notin Range(path[i]) /\ path[i] # <<"..">>

\* f"message_{number}_of_{total}.pdf", total already formatted.
OutputFilename(number, total) ==
    <<"message_">> \o FormatInt(number) \o <<"_of_">> \o total \o <<".pdf">>

\* The error strings split_messages_pdf returns.
NoMessagesError == <<"No messages found matching the pattern 'Message X of Y'.">>

ProcessingError(e) == <<"An error occurred during PDF processing: ", e>>

\* A file's content: the pages written to it, complete or cut short.
FileOf(pages) == [complete |-> TRUE, pages |-> pages]

PartialFile == [complete |-> FALSE, pages |-> <<>>]

\* The file system after one attempt to write pages to path.
FsAfterWrite(files, path, pages, outcome) ==
    CASE outcome = "ok" -> (path :> FileOf(pages)) @@ files
      [] outcome = "write_raises" -> (path :> PartialFile) @@ files
      [] OTHER -> files

\* ------------------------------------------------- split_messages_pdf
\* Lines 127-132: the total kept after a marker declaring found_total.
TotalAfterMatch(total, found_total) ==
    IF total = 0 THEN found_total
    ELSE IF total # found_total THEN found_total
    ELSE total

\* Line 135: the marker starts a new message.
StartsNewMessage(found_message_num, current) == found_message_num # current

\* Lines 113-114 and 163-165: a page without a marker joins the active
\* message, if there is one.
ContinuationPages(current, pages, page) ==
    IF current > 0 THEN Append(pages, page) ELSE pages

\* A slip at line 159: the membership test is inverted.
AppendIfAbsent_Inverted(pages, page) ==
    IF page \in Range(pages) THEN Append(pages, page) ELSE pages

\* Lines 159-160: a page repeating the active marker is added unless the
\* list holds it already.  A page is equal to itself only: the pages of a
\* document are distinct objects, named here by their positions.
AppendIfAbsent(pages, page) ==
    IF page \notin Range(pages) THEN Append(pages, page) ELSE pages

\* A slip at line 137: the pages held are written without the test.
SealDue_Always(pages) == TRUE

\* Line 137: a new marker writes the pages held, if there are any.
SealDue(pages) == pages # <<>>

\* A slip at line 174: "break" in place of "continue" ends the loop.
AfterPageError_Break(page, n) == n

\* Lines 170-174: a page whose processing raised is logged and the loop
\* continues; the result is the number of pages the loop is done with.
AfterPageError(page, n) == page

\* Line 177: the last message is written after the loop.
FinalSealDue(pages, current) == pages # <<>> /\ current > 0

\* A slip at lines 180-184: the last match is not consulted.
FinalTotal_NoMatchLookup(total, match) ==
    IF total = 0 THEN <<"X">> ELSE FormatInt(total)

\* Lines 180-184: the total the last file is named with.
FinalTotal(total, match) ==
    IF total = 0 /\ match # None THEN FormatInt(ParseInt(match[2]))
    ELSE IF total = 0 THEN <<"X">>
    ELSE FormatInt(total)

\* A slip at lines 200-202: the no-messages message is not returned.
SplitReturn_NoError(files) == [files |-> files, error |-> None]

\* Lines 199-205: what a completed walk returns.
SplitReturn(files) ==
    IF files = <<>> THEN [files |-> <<>>, error |-> NoMessagesError]
    ELSE [files |-> files, error |-> None]

\* A slip at line 213: the failure is reported as "no messages found".
SplitFailure_AsNoMessages(e) == [files |-> <<>>, error |-> NoMessagesError]

\* Lines 207-213: what the call returns when an exception escapes the walk.
SplitFailure(e) == [files |-> <<>>, error |-> ProcessingError(e)]

\* The record of one file written: what lines 139-151 and 187-197 put in it.
Group(number, total, pages, path) ==
    [number |-> number, total |-> total, pages |-> pages, path |-> path]

\* Lines 107-139: a pass of the loop tries to write a file when the text of
\* the page has a marker with another number than the active one and pages
\* are held.
WriteAttempted(out, current, pages) ==
    /\ ~out.raised
    /\ out.text # <<>>
    /\ PageMatch[out.text] # NoMatch
    /\ StartsNewMessage(ParseInt(PageMatch[out.text][1]), current)
    /\ SealDue(pages)

\* Lines 104-174: one pass of the loop over the next page.  The outcome of
\* a write is drawn only when the pass tries one.
Split_Page ==
    /\ pc = "walk"
    /\ page_num < num_pages
    /\ \E out \in ExtractOutcomes :
       \E w \in (IF WriteAttempted(out, current_message_number,
                                   pages_for_current_message)
                 THEN WriteOutcomes ELSE {"ok"}) :
        LET page == page_num + 1
            match == PageMatch[out.text]
            found_message_num == ParseInt(match[1])
            found_total_messages == ParseInt(match[2])
            new_total == TotalAfterMatch(total_messages_reported, found_total_messages)
            output_filename ==
                OutputFilename(current_message_number, FormatInt(new_total))
            output_file_path == PathJoin(output_split_dir, output_filename)
            page_raised ==
                \/ out.raised
                \/ /\ WriteAttempted(out, current_message_number,
                                     pages_for_current_message)
                   /\ w # "ok"
        IN  /\ page_num' =
                  (IF page_raised THEN AfterPageError(page, num_pages) ELSE page)
            /\ extracted' = Append(extracted, out)
            /\ IF out.raised
               THEN \* extract_text() raised: line 170 catches it
                    /\ page_errors' = page_errors \cup {page}
                    /\ UNCHANGED <<current_message_number, total_messages_reported,
                                   pages_for_current_message, last_match,
                                   generated_files, saved, fs>>
               ELSE IF out.text = <<>>
               THEN \* lines 109-115
                    /\ pages_for_current_message' =
                          ContinuationPages(current_message_number,
                                            pages_for_current_message, page)
                    /\ UNCHANGED <<current_message_number, total_messages_reported,
                                   last_match, generated_files, saved, fs,
                                   page_errors>>
               ELSE IF match = NoMatch
               THEN \* lines 161-168
                    /\ pages_for_current_message' =
                          ContinuationPages(current_message_number,
                                            pages_for_current_message, page)
                    /\ UNCHANGED <<current_message_number, total_messages_reported,
                                   last_match, generated_files, saved, fs,
                                   page_errors>>
               ELSE \* lines 120-160
                    /\ last_match' = match
                    /\ total_messages_reported' = new_total
                    /\ IF ~StartsNewMessage(found_message_num, current_message_number)
                       THEN /\ pages_for_current_message' =
                                  AppendIfAbsent(pages_for_current_message, page)
                            /\ UNCHANGED <<current_message_number, generated_files,
                                           saved, fs, page_errors>>
                       ELSE IF ~SealDue(pages_for_current_message)
                       THEN /\ current_message_number' = found_message_num
                            /\ pages_for_current_message' = <<page>>
                            /\ UNCHANGED <<generated_files, saved, fs, page_errors>>
                       ELSE /\ fs' = FsAfterWrite(fs, output_file_path,
                                                  pages_for_current_message, w)
                            /\ IF w = "ok"
                               THEN /\ generated_files' =
                                          Append(generated_files, output_file_path)
                                    /\ saved' =
                                          Append(saved,
                                                 Group(current_message_number,
                                                       FormatInt(new_total),
                                                       pages_for_current_message,
                                                       output_file_path))
                                    /\ current_message_number' = found_message_num
                                    /\ pages_for_current_message' = <<page>>
                                    /\ UNCHANGED page_errors
                               ELSE \* the write raised: line 170 catches it
                                    /\ page_errors' = page_errors \cup {page}
                                    /\ UNCHANGED <<generated_files, saved,
                                                   current_message_number,
                                                   pages_for_current_message>>
    /\ UNCHANGED <<pc, request, temp_dir, dirs, reader_open, num_pages, resultVars,
                   replyVars, cleanup_error>>

\* Lines 176-213: the last message is written and the call returns.
Split_Finish ==
    /\ pc = "walk"
    /\ page_num = num_pages
    /\ \E w \in (IF FinalSealDue(pages_for_current_message, current_message_number)
                 THEN WriteOutcomes ELSE {"ok"}) :
        LET total == FinalTotal(total_messages_reported, last_match)
            output_filename == OutputFilename(current_message_number, total)
            output_file_path == PathJoin(output_split_dir, output_filename)
            files == Append(generated_files, output_file_path)
            result ==
                IF ~FinalSealDue(pages_for_current_message, current_message_number)
                THEN SplitReturn(generated_files)
                ELSE IF w = "ok" THEN SplitReturn(files)
                ELSE SplitFailure("write")
        IN  /\ IF FinalSealDue(pages_for_current_message, current_message_number)
               THEN /\ total_messages_reported' =
                          (IF total_messages_reported = 0 /\ last_match # None
                           THEN ParseInt(last_match[2])
                           ELSE IF total_messages_reported = 0 THEN "X"
                           ELSE total_messages_reported)
                    /\ fs' = FsAfterWrite(fs, output_file_path,
                                          pages_for_current_message, w)
                    /\ IF w = "ok"
                       THEN /\ generated_files' = files
                            /\ saved' =
                                  Append(saved,
                                         Group(current_message_number, total,
                                               pages_for_current_message,
                                               output_file_path))
                       ELSE UNCHANGED <<generated_files, saved>>
               ELSE UNCHANGED <<total_messages_reported, fs, generated_files, saved>>
            /\ split_files' = result.files
            /\ error' = result.error
    /\ pc' = "result"
    /\ UNCHANGED <<request, temp_dir, dirs, reader_open, num_pages, page_num,
                   extracted, current_message_number, pages_for_current_message,
                   last_match, page_errors, replyVars, cleanup_error>>

\* Lines 317-324: the message upload_file's except block flashes.
UnexpectedError(e) == <<"An unexpected error occurred: ", e>>

\* Lines 80-101: the output directory is made, the document opened and the
\* walk's variables set.  os.makedirs is outside the try of line 91, so its
\* exception reaches upload_file's handler (lines 317-324).
Split_Open ==
    /\ pc = "split"
    /\ \E outcome \in {"ok", "makedirs_raises", "open_raises"}, n \in 0..MaxPages :
        IF outcome = "makedirs_raises"
        THEN /\ flashed' = Append(flashed, UnexpectedError("makedirs"))
             /\ response' = <<"redirect", "index">>
             /\ pc' = "finally"
             /\ UNCHANGED <<dirs, walkVars, resultVars, archive>>
        ELSE /\ dirs' = dirs \cup {output_split_dir}
             /\ generated_files' = <<>>
             /\ UNCHANGED <<replyVars, extracted, saved, page_errors, page_num>>
             /\ IF outcome = "open_raises"
                THEN /\ split_files' = SplitFailure("open").files
                     /\ error' = SplitFailure("open").error
                     /\ pc' = "result"
                     /\ UNCHANGED <<reader_open, num_pages, current_message_number,
                                    total_messages_reported,
                                    pages_for_current_message, last_match>>
                ELSE /\ reader_open' = TRUE
                     /\ num_pages' = n
                     /\ current_message_number' = 0
                     /\ total_messages_reported' = 0
                     /\ pages_for_current_message' = <<>>
                     /\ last_match' = None
                     /\ pc' = "walk"
                     /\ UNCHANGED resultVars
    /\ UNCHANGED <<request, temp_dir, fs, cleanup_error>>

\* ------------------------------------------------------------ upload_file
\* Lines 235-248 and 339-342: the request is validated.
Upload_Validate ==
    /\ pc = "validate"
    /\ IF ~request.has_part
       THEN /\ flashed' = Append(flashed, <<"No file part selected.">>)
            /\ response' = <<"redirect", "request.url">>
            /\ pc' = "returned"
       ELSE IF request.filename = <<>>
       THEN /\ flashed' = Append(flashed, <<"No file selected.">>)
            /\ response' = <<"redirect", "request.url">>
            /\ pc' = "returned"
       ELSE IF allowed_file(request.filename)
       THEN /\ pc' = "mkdtemp"
            /\ UNCHANGED <<flashed, response>>
       ELSE /\ flashed' = Append(flashed, <<"Invalid file type. Please upload a PDF.">>)
            /\ response' = <<"redirect", "request.url">>
            /\ pc' = "returned"
    /\ UNCHANGED <<request, temp_dir, fs, dirs, walkVars, resultVars, archive,
                   cleanup_error>>

\* Lines 255-262: the request's temporary directory is created.
Upload_Mkdtemp ==
    /\ pc = "mkdtemp"
    /\ \E ok \in BOOLEAN :
        IF ok
        THEN /\ temp_dir' = TempDirPath
             /\ dirs' = dirs \cup {TempDirPath}
             /\ pc' = "save"
             /\ UNCHANGED <<flashed, response>>
        ELSE /\ flashed' = Append(flashed, UnexpectedError("mkdtemp"))
             /\ response' = <<"redirect", "index">>
             /\ pc' = "finally"
             /\ UNCHANGED <<temp_dir, dirs>>
    /\ UNCHANGED <<request, fs, walkVars, resultVars, archive, cleanup_error>>

\* Line 266: the upload is saved under the temporary directory.
Upload_Save ==
    /\ pc = "save"
    /\ \E w \in WriteOutcomes :
        /\ fs' = FsAfterWrite(fs, upload_path, <<>>, w)
        /\ IF w = "ok"
           THEN /\ pc' = "split"
                /\ UNCHANGED <<flashed, response>>
           ELSE /\ flashed' = Append(flashed, UnexpectedError("save"))
                /\ response' = <<"redirect", "index">>
                /\ pc' = "finally"
    /\ UNCHANGED <<request, temp_dir, dirs, walkVars, resultVars, archive,
                   cleanup_error>>

\* split_messages_pdf has returned: the reader and the locals of the walk
\* no longer exist (they are as before the call).
WalkVarsGone ==
    /\ reader_open' = FALSE
    /\ num_pages' = 0
    /\ page_num' = 0
    /\ extracted' = <<>>
    /\ current_message_number' = 0
    /\ total_messages_reported' = 0
    /\ pages_for_current_message' = <<>>
    /\ last_match' = None
    /\ generated_files' = <<>>
    /\ saved' = <<>>
    /\ page_errors' = {}

\* Lines 270-288: split_messages_pdf's two values reach the handler, which
\* looks at them.
Upload_Result ==
    /\ pc = "result"
    /\ IF error # None
       THEN /\ flashed' = Append(flashed, <<"Error splitting PDF: ">> \o error)
            /\ response' = <<"redirect", "index">>
            /\ pc' = "finally"
       ELSE IF split_files = <<>>
       THEN /\ flashed' = Append(flashed,
                  <<"Splitting process completed, but no messages matching the pattern \"Message X of Y\" were found.">>)
            /\ response' = <<"redirect", "index">>
            /\ pc' = "finally"
       ELSE /\ pc' = "zip"
            /\ UNCHANGED <<flashed, response>>
    /\ WalkVarsGone
    /\ UNCHANGED <<request, temp_dir, fs, dirs, resultVars, archive, cleanup_error>>

\* Lines 299-301: the entry zf.write puts in the archive for one file.
ZipEntry(files, fpath) == [arcname |-> Basename(fpath), content |-> files[fpath]]

\* Lines 291-315: the files are zipped in memory and the archive is sent.
Upload_Zip ==
    /\ pc = "zip"
    /\ \E ok \in BOOLEAN :
        IF ok /\ \A i \in DOMAIN split_files : split_files[i] \in DOMAIN fs
        THEN /\ archive' = [i \in DOMAIN split_files |-> ZipEntry(fs, split_files[i])]
             /\ response' = <<"send_file">> \o base_filename \o <<"_messages.zip">>
             /\ UNCHANGED flashed
        ELSE /\ flashed' = Append(flashed, UnexpectedError("zip"))
             /\ response' = <<"redirect", "index">>
             /\ UNCHANGED archive
    /\ pc' = "finally"
    /\ UNCHANGED <<request, temp_dir, fs, dirs, walkVars, resultVars, cleanup_error>>

\* A slip at line 329: the test of os.path.exists is inverted.
CleanupDue_Inverted(dir, existing) == dir # None /\ dir \notin existing

\* Line 329: there is a temporary directory to remove.
CleanupDue(dir, existing) == dir # None /\ dir \in existing

\* shutil.rmtree(dir): everything at or below dir is gone.
Rmtree(paths, dir) ==
    {p \in paths : ~(Len(p) >= Len(dir) /\ SubSeq(p, 1, Len(dir)) = dir)}

\* Lines 326-337: the finally block; a failing rmtree is logged and ignored.
Upload_Finally ==
    /\ pc = "finally"
    /\ \E ok \in BOOLEAN :
        IF ~CleanupDue(temp_dir, dirs)
        THEN UNCHANGED <<dirs, fs, cleanup_error>>
        ELSE IF ok
        THEN /\ dirs' = Rmtree(dirs, temp_dir)
             /\ fs' = [p \in Rmtree(DOMAIN fs, temp_dir) |-> fs[p]]
             /\ UNCHANGED cleanup_error
        ELSE /\ cleanup_error' = TRUE
             /\ UNCHANGED <<dirs, fs>>
    /\ pc' = "returned"
    /\ UNCHANGED <<request, temp_dir, walkVars, resultVars, replyVars>>

\* ----------------------------------------------------------- specification
Init ==
    /\ pc = "validate"
    /\ request \in Requests
    /\ temp_dir = None
    /\ fs = <<>>
    /\ dirs = {}
    /\ reader_open = FALSE
    /\ num_pages = 0
    /\ page_num = 0
    /\ extracted = <<>>
    /\ current_message_number = 0
    /\ total_messages_reported = 0
    /\ pages_for_current_message = <<>>
    /\ last_match = None
    /\ generated_files = <<>>
    /\ saved = <<>>
    /\ page_errors = {}
    /\ split_files = <<>>
    /\ error = None
    /\ flashed = <<>>
    /\ response = <<"none">>
    /\ archive = <<>>
    /\ cleanup_error = FALSE

Next ==
    \/ Upload_Validate
    \/ Upload_Mkdtemp
    \/ Upload_Save
    \/ Split_Open
    \/ Split_Page
    \/ Split_Finish
    \/ Upload_Result
    \/ Upload_Zip
    \/ Upload_Finally

Spec == Init /\ [][Next]_vars

\* The handler runs in one thread from line 225 to its return, and the loop
\* of line 104 takes the next page as soon as it is done with one: a step
\* that can be taken is taken.
FairSpec == Spec /\ WF_vars(Next)

\* ------------------------------------------------- vocabulary of the claims
\* The pages the loop has finished with.
Visited == 1..page_num

\* The match the code found on page p's text (NoMatch without text).
MatchOn(p) ==
    IF extracted[p].raised THEN NoMatch
    ELSE PageMatch[extracted[p].text]

\* Page p carries text in which the pattern of line 86 matches.
IsMarkerPage(p) == MatchOn(p) # NoMatch

\* A digit run that denotes a positive integer without leading zeros.
PositiveRun(ds) == ds # <<>> /\ ds[1] # "0"

\* The marker of a text as the specification reads it: the first occurrence
\* of the pattern whose two digit runs are positive and without leading
\* zeros, NoMatch when there is none.
SpecMarker(text) ==
    LET hits == {i \in 1..Len(text) :
                    /\ MatchAt(text, i) # <<>>
                    /\ PositiveRun(MatchAt(text, i)[1])
                    /\ PositiveRun(MatchAt(text, i)[2])}
    IN  IF hits = {} THEN NoMatch
        ELSE MatchAt(text, CHOOSE i \in hits : \A j \in hits : i <= j)

\* Every text visited is read alike by the code and by the specification.
MarkersWellFormed ==
    \A p \in Visited :
        extracted[p].raised \/ MatchOn(p) = SpecMarker(extracted[p].text)

\* No write of an output file raised inside the loop.
NoWriteRaised == \A p \in page_errors : extracted[p].raised

\* split_messages_pdf has returned after walking the whole document.
WalkReturned ==
    pc = "result" /\ reader_open /\ error \in {None, NoMessagesError}

\* The first marker page visited (page_num + 1 when there is none).
FirstMarkerPage ==
    IF \E p \in Visited : IsMarkerPage(p)
    THEN CHOOSE p \in Visited :
            IsMarkerPage(p) /\ \A q \in Visited : IsMarkerPage(q) => p <= q
    ELSE page_num + 1

\* The places <<g, k>> at which page p stands in the groups written.
PlacesOf(p) ==
    UNION {{<<g, k>> : k \in {i \in DOMAIN saved[g].pages : saved[g].pages[i] = p}} :
              g \in DOMAIN saved}

\* The pages of a list are in document order, none twice.
InDocumentOrder(pages) ==
    \A i, j \in DOMAIN pages : i < j => pages[i] < pages[j]

\* The pages the walk has attributed to no message.
SkippedPages ==
    {p \in Visited : PlacesOf(p) = {} /\ p \notin Range(pages_for_current_message)}

\* The elements of a finite set of integers in increasing order.
Sorted(S) ==
    CHOOSE q \in [1..Cardinality(S) -> S] :
        \A i, j \in 1..Cardinality(S) : i < j => q[i] < q[j]

\* The distinct message numbers of the markers visited, in the order in
\* which each was first met.
FirstEncounters ==
    LET firsts == {p \in Visited :
                      /\ IsMarkerPage(p)
                      /\ \A q \in Visited :
                            (q < p /\ IsMarkerPage(q))
                                => ParseInt(MatchOn(q)[1]) # ParseInt(MatchOn(p)[1])}
        order == Sorted(firsts)
    IN  [i \in DOMAIN order |-> ParseInt(MatchOn(order[i])[1])]

SavedNumbers == [g \in DOMAIN saved |-> saved[g].number]

\* ------------------------------------------------------------------ claims
\* C1 (partition, P2): when the walk has returned, every page at or after
\* the first marker page stands at exactly one place of exactly one group
\* written, and every group's pages are in document order.  Stated for the
\* runs in which every marker is well formed and no output write raised.
C1_Partition ==
    (WalkReturned /\ MarkersWellFormed /\ NoWriteRaised) =>
        /\ \A p \in FirstMarkerPage..page_num : Cardinality(PlacesOf(p)) = 1
        /\ \A g \in DOMAIN saved : InDocumentOrder(saved[g].pages)

\* The last page of a group that carries a marker (the group has one).
LastMarkerPageOf(pages) ==
    CHOOSE p \in Range(pages) :
        IsMarkerPage(p) /\ \A q \in Range(pages) : IsMarkerPage(q) => q <= p

\* C2 (total resolution, P6): the total in the name of every group written
\* is the total declared by the last marker on a page of that group; the
\* marker of the page that starts the next message does not change it.
\* Stated for the runs in which every marker is well formed and no output
\* write raised.
C2_TotalResolution ==
    (WalkReturned /\ MarkersWellFormed /\ NoWriteRaised) =>
        \A g \in DOMAIN saved :
            (\E p \in Range(saved[g].pages) : IsMarkerPage(p)) =>
                saved[g].total =
                    FormatInt(ParseInt(MatchOn(LastMarkerPageOf(saved[g].pages))[2]))

\* C3 (coverage, P1): when the walk has returned, no page before the first
\* marker page is in a group written, and the pages the walk skipped are
\* exactly the pages before the first marker page.  Stated for the runs in
\* which every marker is well formed and no output write raised.
C3_Coverage ==
    (WalkReturned /\ MarkersWellFormed /\ NoWriteRaised) =>
        /\ \A p \in 1..(FirstMarkerPage - 1) : PlacesOf(p) = {}
        /\ SkippedPages = 1..(FirstMarkerPage - 1)

\* C4 (order preservation, P3): the message numbers of the groups written,
\* in the order of the returned list, are the distinct message numbers of
\* the document in the order in which each was first met.  Stated for the
\* runs in which every marker is well formed, no page's extraction raised
\* and no output write raised.
C4_OrderPreservation ==
    (WalkReturned /\ MarkersWellFormed /\ page_errors = {}) =>
        SavedNumbers = FirstEncounters

ExtractionFailed(out) == out.raised \/ out.text = <<>>

\* C6 (extraction-failure continuation, P7): a pass of the loop over a page
\* whose extraction failed while a message is active appends the page to
\* the active message's pages and leaves the message number and the total
\* as they were.
C6_FailureContinuation ==
    [][(/\ pc = "walk"
        /\ page_num' = page_num + 1
        /\ current_message_number > 0
        /\ ExtractionFailed(extracted'[page_num']))
        => /\ pages_for_current_message' =
                 Append(pages_for_current_message, page_num')
           /\ current_message_number' = current_message_number
           /\ total_messages_reported' = total_messages_reported]_vars

C8_AllOrNothing ==
    ~(pc = "result" /\ saved # <<>> /\ split_files = <<>> /\ error # None)

\* C9 (marker detection): a pass of the loop over a page whose text holds
\* no marker with two positive digit runs free of leading zeros changes the
\* walk as marker-free text does: no match is recorded, nothing is written,
\* the number and the total stay, and the page joins the active message if
\* there is one.
C9_MarkerDetection ==
    [][(/\ pc = "walk"
        /\ page_num' = page_num + 1
        /\ ~extracted'[page_num'].raised
        /\ extracted'[page_num'].text # <<>>
        /\ SpecMarker(extracted'[page_num'].text) = NoMatch)
        => /\ last_match' = last_match
           /\ current_message_number' = current_message_number
           /\ total_messages_reported' = total_messages_reported
           /\ saved' = saved
           /\ pages_for_current_message' =
                 ContinuationPages(current_message_number,
                                   pages_for_current_message, page_num')]_vars

\* The files of the output directory.
OutputFiles == {path \in DOMAIN fs : Under(path, output_split_dir)}

\* C10 (unreadable document): when the document cannot be opened no page is
\* processed, no output file is written and the call returns an error that
\* is not the no-messages error; the no-messages error is returned only
\* after the document was opened and every page walked; and the two are
\* flashed as different messages.
C10_Unreadable ==
    /\ (pc = "result" /\ ~reader_open) =>
            /\ page_num = 0 /\ extracted = <<>>
            /\ saved = <<>> /\ OutputFiles = {}
            /\ split_files = <<>>
            /\ error # None /\ error # NoMessagesError
    /\ (pc = "result" /\ error = NoMessagesError) =>
            reader_open /\ page_num = num_pages
    /\ (pc \in {"finally", "returned"} /\ error # None) =>
            flashed = << <<"Error splitting PDF: ">> \o error >>

\* C10's case: opening the document failed and the call has returned.
C10_Witness ==
    /\ pc = "result"
    /\ ~reader_open
    /\ error = ProcessingError("open")

\* The archive has been sent to the user.
ArchiveSent == pc \in {"finally", "returned"} /\ response[1] = "send_file"

\* An entry name of the form message_<N>_of_<T>.pdf: one component, with a
\* number and a total between the fixed parts.
IsMessageName(name) ==
    /\ Len(name) >= 5
    /\ name[1] = "message_"
    /\ name[Len(name)] = ".pdf"
    /\ "/" \notin Range(name)
    /\ \E k \in 3..(Len(name) - 2) :
        /\ name[k] = "_of_"
        /\ \A i \in 2..(k - 1) : name[i] \in Digits
        /\ \A i \in (k + 1)..(Len(name) - 1) : name[i] \in Digits \cup {"X"}

\* C11 (archive contents): an archive that is sent holds one entry for each
\* file split_messages_pdf returned, each named message_<N>_of_<T>.pdf
\* without a directory, and no two entries have the same name.
C11_ArchiveContents ==
    ArchiveSent =>
        /\ Len(archive) = Len(split_files)
        /\ \A i \in DOMAIN archive : IsMessageName(archive[i].arcname)
        /\ \A i, j \in DOMAIN archive :
            i # j => archive[i].arcname # archive[j].arcname

\* C12 (sealing is final): during and at the end of a walk whose markers
\* are well formed and whose pages and writes all succeeded, every group
\* that was sealed still has its output file, holding exactly the pages the
\* group had when it was sealed.
C12_SealingFinal ==
    (pc \in {"walk", "result"} /\ MarkersWellFormed /\ page_errors = {}) =>
        \A g \in DOMAIN saved :
            /\ saved[g].path \in DOMAIN fs
            /\ fs[saved[g].path] = FileOf(saved[g].pages)

\* C13 (non-empty groups): every group written has at least one page, and
\* no complete output file holds zero pages.
C13_NonEmptyGroups ==
    /\ \A g \in DOMAIN saved : Len(saved[g].pages) >= 1
    /\ \A f \in OutputFiles : fs[f].complete => Len(fs[f].pages) >= 1

\* A walk has returned two groups, one written inside the loop and one
\* after it.
C13_Witness ==
    /\ WalkReturned
    /\ error = None
    /\ Len(saved) >= 2
    /\ \A g \in DOMAIN saved : saved[g].path \in OutputFiles

\* A page on which the total differs from the total of an earlier marker.
InconsistentTotal(p) ==
    /\ IsMarkerPage(p)
    /\ \E q \in 1..(p - 1) :
        IsMarkerPage(q) /\ ParseInt(MatchOn(q)[2]) # ParseInt(MatchOn(p)[2])

\* C14 (walk completion): whatever the pages are (extraction raising or
\* giving no text, totals disagreeing, writes failing), each pass of the
\* loop takes exactly the next page in document order, the walk ends only
\* after the last page and then returns a result (files or an error), and
\* no walk goes on forever.
C14_WalkCompletion ==
    /\ [](pc = "walk" => page_num <= num_pages /\ Len(extracted) = page_num)
    /\ [][pc = "walk" =>
            IF page_num < num_pages
            THEN /\ pc' = "walk"
                 /\ page_num' = page_num + 1
                 /\ Len(extracted') = page_num'
                 /\ SubSeq(extracted', 1, page_num) = extracted
            ELSE /\ pc' = "result"
                 /\ page_num' = num_pages
                 /\ (split_files' # <<>> \/ error' # None)]_vars
    /\ []<>(pc # "walk")

\* A walk over a document of MaxPages pages has returned; extraction raised
\* on one page and the total of a marker disagreed with an earlier one.
C14_Witness ==
    /\ pc = "result"
    /\ page_num = MaxPages
    /\ \E p \in Visited : extracted[p].raised
    /\ \E p \in Visited : InconsistentTotal(p)

\* C15 (repeated marker): a pass of the loop over a page whose marker has the
\* number of the active message writes no group, leaves the message number
\* as it is and appends the page, once, to the active message's pages.
C15_RepeatedMarker ==
    [][(/\ pc = "walk"
        /\ page_num' = page_num + 1
        /\ current_message_number > 0
        /\ ~extracted'[page_num'].raised
        /\ PageMatch[extracted'[page_num'].text] # NoMatch
        /\ ParseInt(PageMatch[extracted'[page_num'].text][1])
              = current_message_number)
       => /\ saved' = saved
          /\ generated_files' = generated_files
          /\ fs' = fs
          /\ current_message_number' = current_message_number
          /\ pages_for_current_message' =
                Append(pages_for_current_message, page_num')
          /\ page_num' \notin Range(pages_for_current_message)]_vars

\* A walk has returned one group of MaxPages pages, each page carrying the
\* marker of the same message.
C15_Witness ==
    /\ WalkReturned
    /\ Len(saved) = 1
    /\ saved[1].pages = [p \in 1..MaxPages |-> p]
    /\ \A p \in Visited :
        IsMarkerPage(p) /\ ParseInt(MatchOn(p)[1]) = saved[1].number

\* The pages form a run of consecutive pages of the document.
Consecutive(pages) ==
    \A k \in 1..(Len(pages) - 1) : pages[k + 1] = pages[k] + 1

\* C16 (contiguity): when the walk has returned, with well-formed markers
\* and no write having raised, the pages of every group written are
\* consecutive pages of the document and the first of them carries a marker
\* with the group's number.
C16_Contiguity ==
    (WalkReturned /\ MarkersWellFormed /\ NoWriteRaised) =>
        \A g \in DOMAIN saved :
            /\ Consecutive(saved[g].pages)
            /\ IsMarkerPage(saved[g].pages[1])
            /\ ParseInt(MatchOn(saved[g].pages[1])[1]) = saved[g].number

\* C17 (empty result means no markers): when the walk has gone over every
\* page and the call returns the no-messages error, no page of the document
\* gave a text with a marker (two positive numbers without leading zeros).
C17_EmptyMeansNoMarkers ==
    (pc = "result" /\ reader_open /\ error = NoMessagesError) =>
        \A p \in Visited :
            extracted[p].raised \/ SpecMarker(extracted[p].text) = NoMatch

\* The totals of the markers the code found on the pages visited, as they
\* are written in file names.
MarkerTotals ==
    {FormatInt(ParseInt(m[2])) :
        m \in {MatchOn(p) : p \in Visited} \ {NoMatch}}

\* C18 (known total by construction): while a message is active a marker
\* match has been recorded, whose total is the recorded total; no group
\* written has the placeholder "X" for its total and no output file has it
\* in its name; and when the walk has returned, every group written is
\* named with the total of a marker of the document.
C18_KnownTotal ==
    /\ (pc \in {"walk", "result"} /\ current_message_number > 0) =>
            /\ last_match # None
            /\ total_messages_reported = ParseInt(last_match[2])
    /\ \A g \in DOMAIN saved : saved[g].total # <<"X">>
    /\ \A f \in OutputFiles : "X" \notin Range(Basename(f))
    /\ (pc = "result" /\ saved # <<>>) =>
            \A g \in DOMAIN saved : saved[g].total \in MarkerTotals

\* The last group of a returned walk was named after the loop while the
\* recorded total was 0, so the total was looked up in the last match.
C18_Witness ==
    /\ WalkReturned
    /\ error = None
    /\ current_message_number > 0
    /\ total_messages_reported = 0
    /\ saved # <<>>
    /\ saved[Len(saved)].number = current_message_number
    /\ saved[Len(saved)].total = <<"0">>

====
